---- MODULE Spec2Model ----
(***************************************************************************)
(* Model of plugins/inputs/solaredge/solaredge.go: the SolarEdge input     *)
(* plugin.  One collector instance, its lazily built HTTP client, and the  *)
(* Gather cycle: build the windowed request URL, GET it, check the status, *)
(* decode the JSON body, and add one point per telemetry sample.           *)
(*                                                                         *)
(* Time is modelled as Go models it: an instant is (sec, nsec) since the   *)
(* Unix epoch, a Location maps an instant to a UTC offset, Format renders  *)
(* the wall clock of an instant as civil fields, and ParseInLocation reads *)
(* civil fields back through the Location.                                 *)
(***************************************************************************)
EXTENDS Integers, Sequences, FiniteSets, TLC

VARIABLES
    TimeZone,        \* s.TimeZone (config, immutable)
    SiteID,          \* s.SiteID (config, immutable)
    ResponseTimeout, \* s.ResponseTimeout.Duration, in seconds
    client,          \* s.client.HTTPClient(): NoClient or the stored *http.Client
    pc,              \* position of the one Gather call
    calls,           \* number of Gather calls started on this collector
    loc,             \* local loc of Gather
    startTime,       \* local startTime
    endTime,         \* local endTime
    requestURL,      \* query values of the request URL
    getClient,       \* the client the GET of this cycle is issued through
    gets,            \* GETs issued in this cycle
    elapsed,         \* seconds since `start` while the GET blocks
    responseTime,    \* local responseTime
    resp,            \* the *http.Response of this cycle, or NoResp
    body,            \* state of resp.Body: "none", "open", "closed"
    decodes,         \* json Decode calls in this cycle
    target,          \* target.Data.Telemetries after Decode
    idx,             \* loop position in target.Data.Telemetries
    acc,             \* acc.AddFields calls of this cycle, in call order
    err,             \* value returned by the last finished Gather
    rt_pc,           \* round-trip harness: "start", "formatted", "parsed"
    rt_t,            \* round-trip harness: the instant
    rt_z,            \* round-trip harness: the zone
    rt_str,          \* round-trip harness: Format output
    rt_back          \* round-trip harness: ParseInLocation output

gvars == <<TimeZone, SiteID, ResponseTimeout, client, pc, calls, loc, startTime,
           endTime, requestURL, getClient, gets, elapsed, responseTime, resp, body, decodes,
           target, idx, acc, err>>
rtvars == <<rt_pc, rt_t, rt_z, rt_str, rt_back>>
vars == <<gvars, rtvars>>

(***************************************************************************)
(* Bounds                                                                  *)
(***************************************************************************)
MaxSamples == 3   \* longest telemetries sequence the server returns
MaxCalls == 2     \* Gather calls explored per collector
MaxWait == 6      \* seconds a silent server is observed for

(***************************************************************************)
(* Instants and zones (package time)                                       *)
(***************************************************************************)
Instant(s, n) == [sec |-> s, nsec |-> n]

\* Zones known to the zone database, each a sequence of periods
\* [from, offset]: the offset applies from `from` (Unix seconds, inclusive)
\* up to the next period's `from`.  America/New_York carries its 2017
\* transitions: 2017-03-12 07:00:00Z and 2017-11-05 06:00:00Z.
ZoneDB ==
    [ name \in {"UTC", "MST", "America/New_York"} |->
        CASE name = "UTC" -> << [from |-> 0, offset |-> 0] >>
          [] name = "MST" -> << [from |-> 0, offset |-> 0 - 7 * 3600] >>
          [] name = "America/New_York" ->
                << [from |-> 0,          offset |-> 0 - 5 * 3600],
                   [from |-> 1489302000, offset |-> 0 - 4 * 3600],
                   [from |-> 1509861600, offset |-> 0 - 5 * 3600] >> ]

NilLocation == "nil"

\* time.LoadLocation: "" and "UTC" give UTC; an unknown name gives (nil, err).
LoadLocation(name) ==
    IF name = "" \/ name = "UTC" THEN "UTC"
    ELSE IF name \in DOMAIN ZoneDB THEN name
    ELSE NilLocation

\* Location.lookup: the offset in force at Unix second `sec`.
ZoneOffset(z, sec) ==
    LET ps == ZoneDB[z]
        k  == CHOOSE i \in 1..Len(ps) :
                /\ ps[i].from <= sec \/ i = 1
                /\ i = Len(ps) \/ sec < ps[i + 1].from
    IN  ps[k].offset

ZoneOffsets(z) == { ZoneDB[z][i].offset : i \in 1..Len(ZoneDB[z]) }

(***************************************************************************)
(* Civil calendar (proleptic Gregorian), as used by Format and Parse       *)
(***************************************************************************)
\* days since 1970-01-01 -> [y, mo, d]
CivilFromDays(days) ==
    LET z   == days + 719468
        era == z \div 146097
        doe == z - era * 146097
        yoe == (doe - doe \div 1460 + doe \div 36524 - doe \div 146096) \div 365
        doy == doe - (365 * yoe + yoe \div 4 - yoe \div 100)
        mp  == (5 * doy + 2) \div 153
        d   == doy - (153 * mp + 2) \div 5 + 1
        m   == IF mp < 10 THEN mp + 3 ELSE mp - 9
    IN  [y |-> yoe + era * 400 + (IF m <= 2 THEN 1 ELSE 0), mo |-> m, d |-> d]

\* [y, mo, d] -> days since 1970-01-01
DaysFromCivil(y, m, d) ==
    LET yy  == IF m <= 2 THEN y - 1 ELSE y
        era == yy \div 400
        yoe == yy - era * 400
        doy == (153 * (IF m > 2 THEN m - 3 ELSE m + 9) + 2) \div 5 + d - 1
        doe == yoe * 365 + yoe \div 4 - yoe \div 100 + doy
    IN  era * 146097 + doe - 719468

IsLeap(y) == (y % 4 = 0) /\ ((y % 100 # 0) \/ (y % 400 = 0))

DaysIn(mo, y) ==
    IF mo = 2 THEN (IF IsLeap(y) THEN 29 ELSE 28)
    ELSE IF mo \in {4, 6, 9, 11} THEN 30 ELSE 31

\* The text "YYYY-MM-DD HH:MM:SS" is carried as its six numeric fields.
DateString(y, mo, d, h, mi, s) ==
    [y |-> y, mo |-> mo, d |-> d, h |-> h, mi |-> mi, s |-> s]

\* Wall-clock seconds since 1970-01-01 00:00:00 denoted by a date string.
WallSeconds(str) ==
    DaysFromCivil(str.y, str.mo, str.d) * 86400 + str.h * 3600 + str.mi * 60 + str.s

FormatIn_UTC(t, z) ==
    LET c   == CivilFromDays(t.sec \div 86400)
        rem == t.sec % 86400
    IN  DateString(c.y, c.mo, c.d, rem \div 3600, (rem % 3600) \div 60, rem % 60)

\* Time.In(z).Format("2006-01-02 15:04:05"): the wall clock of t in z,
\* to the second, with no offset suffix.
FormatIn(t, z) ==
    LET w   == t.sec + ZoneOffset(z, t.sec)
        c   == CivilFromDays(w \div 86400)
        rem == w % 86400
    IN  DateString(c.y, c.mo, c.d, rem \div 3600, (rem % 3600) \div 60, rem % 60)

\* time.Parse layout check: every field within its range.
WellFormed(str) ==
    /\ str.mo \in 1..12
    /\ str.d \in 1..DaysIn(str.mo, str.y)
    /\ str.h \in 0..23
    /\ str.mi \in 0..59
    /\ str.s \in 0..59

\* time.ParseInLocation(layout, str, z) -> time.Date(..., z): the instants
\* whose wall clock in z reads str.  A wall clock repeated by an offset
\* change has two; time.Date documents that it returns one of them without
\* guaranteeing which.  A wall clock skipped by an offset change has none,
\* and Date then returns a time correct in one of the two zones involved.
ParseInLocation(str, z) ==
    LET w     == WallSeconds(str)
        exact == { w - o : o \in { p \in ZoneOffsets(z) : ZoneOffset(z, w - p) = p } }
    IN  { Instant(u, 0) :
            u \in IF exact # {} THEN exact ELSE { w - o : o \in ZoneOffsets(z) } }

\* 6 * 24 * time.Hour, in seconds
Lookback == 6 * 24 * 3600

SubLookback_SevenDays(t) == Instant(t.sec - 7 * 24 * 3600, t.nsec)

\* endTime.Add(-time.Duration(6 * 24 * time.Hour))
SubLookback(t) == Instant(t.sec - Lookback, t.nsec)


(***************************************************************************)
(* Values of the collector                                                 *)
(***************************************************************************)
\* s.Name
Name == "solaredge"

\* init(): ResponseTimeout defaults to 5 * time.Second
DefaultResponseTimeout == 5

NoClient == [set |-> FALSE, headerTimeout |-> 0, timeout |-> 0, madeIn |-> 0]

\* &http.Client{Transport: &http.Transport{ResponseHeaderTimeout: d}, Timeout: d},
\* tagged with the Gather call that built it.
NewClient(d, call) ==
    [set |-> TRUE, headerTimeout |-> d, timeout |-> d, madeIn |-> call]

\* http.DefaultClient, the client behind the package-level http.Get:
\* a zero Timeout means no timeout.
DefaultClient == [set |-> TRUE, headerTimeout |-> 0, timeout |-> 0, madeIn |-> 0]

EnsureClient_Rebuild(c, d, call) == NewClient(d, call)

\* if s.client.HTTPClient() == nil { ...; s.client.SetHTTPClient(client) }
EnsureClient(c, d, call) == IF ~c.set THEN NewClient(d, call) ELSE c

\* url.Parse of the composed equipment URL: an invalid percent escape in the
\* path is rejected.
URLParses(site) == site # "%zz"

NoError == [kind |-> "nil", code |-> 0]
InvalidURLError == [kind |-> "InvalidURL", code |-> 0]
NetworkError == [kind |-> "Network", code |-> 0]
UnexpectedStatusError(got) == [kind |-> "UnexpectedStatus", code |-> got]
DecodeError == [kind |-> "Decode", code |-> 0]
TimestampParseError == [kind |-> "TimestampParse", code |-> 0]

StatusOK_Below300(code) == code < 300

\* resp.StatusCode != http.StatusOK
StatusOK(code) == code = 200

ZeroDate == DateString(0, 0, 0, 0, 0, 0)
ZeroInstant == Instant(0, 0)
NoURL == [startTime |-> ZeroDate, endTime |-> ZeroDate]

(***************************************************************************)
(* What the remote server can send                                         *)
(***************************************************************************)
\* One element of Equipment.Data.Telemetries; totalActivePower and
\* inverterMode stand for the fourteen value fields, all copied verbatim.
Telemetry(date, power, mode) ==
    [date |-> date, totalActivePower |-> power, inverterMode |-> mode]

SampleSet ==
    { Telemetry(DateString(2017, 7, 1, 12, 0, 0), 100, "MPPT"),
      Telemetry(DateString(2017, 11, 5, 1, 30, 0), 250, "THROTTLED"),
      Telemetry(DateString(2017, 13, 1, 12, 0, 0), 0, "OFF") }

SeqsUpTo(S, n) == UNION { [1..k -> S] : k \in 0..n }

\* A response body: JSON that decodes into Equipment, or not.
Payloads ==
    { [json |-> TRUE, telemetries |-> ts] : ts \in SeqsUpTo(SampleSet, MaxSamples) }
        \cup { [json |-> FALSE, telemetries |-> << >>] }

Statuses == {200, 204, 404, 503}

Responses == { [status |-> st, payload |-> p] : st \in Statuses, p \in Payloads }

NoResp == [status |-> 0, payload |-> [json |-> FALSE, telemetries |-> << >>]]

\* time.Now() at the calls explored: mid-summer with a sub-second part, one
\* day after the 2017 spring-forward, and two days after the 2017 fall-back
\* of America/New_York.
Nows ==
    { Instant(1498910400, 500000000),
      Instant(1489302000 + 86400, 0),
      Instant(1509861600 + 2 * 86400, 0) }

ZoneNames == {"UTC", "MST", "America/New_York", "Mars/Olympus"}
SiteIDs == {"123456", "%zz"}

(***************************************************************************)
(* Gather                                                                  *)
(***************************************************************************)
\* fields, tags and timestamp of one acc.AddFields call
Point(tel, rtime, date) ==
    [name |-> Name,
     fields |-> [response_time |-> rtime,
                 totalActivePower |-> tel.totalActivePower,
                 inverterMode |-> tel.inverterMode],
     tags |-> << >>,
     time |-> date]

Emit_Prepend(points, p) == <<p>> \o points

\* acc.AddFields(s.Name, fields, tags, date)
Emit(points, p) == Append(points, p)

DeferredClose_Missing(b) == b

\* defer resp.Body.Close()
DeferredClose(b) == IF b = "open" THEN "closed" ELSE b

\* return e, running the deferred calls
Return(e) ==
    /\ pc' = "idle"
    /\ err' = e
    /\ body' = DeferredClose(body)

GInit ==
    /\ TimeZone \in ZoneNames
    /\ SiteID \in SiteIDs
    /\ ResponseTimeout = DefaultResponseTimeout
    /\ client = NoClient
    /\ pc = "idle"
    /\ calls = 0
    /\ loc = NilLocation
    /\ startTime = ZeroInstant
    /\ endTime = ZeroInstant
    /\ requestURL = NoURL
    /\ getClient = NoClient
    /\ gets = 0
    /\ elapsed = 0
    /\ responseTime = 0
    /\ resp = NoResp
    /\ body = "none"
    /\ decodes = 0
    /\ target = << >>
    /\ idx = 0
    /\ acc = << >>
    /\ err = NoError

\* Lines 106-136: ensure the client, build the URL, issue the GET.
GatherStart ==
    /\ pc = "idle"
    /\ calls < MaxCalls
    /\ calls' = calls + 1
    /\ client' = EnsureClient(client, ResponseTimeout, calls + 1)
    /\ resp' = NoResp
    /\ decodes' = 0
    /\ target' = << >>
    /\ idx' = 0
    /\ acc' = << >>
    /\ elapsed' = 0
    /\ responseTime' = 0
    /\ \E now \in Nows :
        IF ~URLParses(SiteID)
        THEN /\ pc' = "idle"
             /\ err' = InvalidURLError
             /\ body' = "none"
             /\ loc' = NilLocation
             /\ startTime' = ZeroInstant
             /\ endTime' = ZeroInstant
             /\ requestURL' = NoURL
             /\ getClient' = NoClient
             /\ gets' = 0
        ELSE /\ loc' = LoadLocation(TimeZone)
             /\ body' = "none"
             /\ IF loc' = NilLocation
                THEN \* time.Now().In(nil) panics
                     /\ pc' = "panicked"
                     /\ startTime' = ZeroInstant
                     /\ endTime' = ZeroInstant
                     /\ requestURL' = NoURL
                     /\ getClient' = NoClient
                     /\ gets' = 0
                     /\ err' = err
                ELSE /\ endTime' = now
                     /\ startTime' = SubLookback(now)
                     /\ requestURL' = [startTime |-> FormatIn(startTime', loc'),
                                       endTime |-> FormatIn(endTime', loc')]
                     /\ getClient' = DefaultClient
                     /\ gets' = 1
                     /\ pc' = "fetching"
                     /\ err' = err
    /\ UNCHANGED <<TimeZone, SiteID, ResponseTimeout, rtvars>>

\* The GET blocks for another second: nothing has arrived, and the client
\* it was issued through has not timed out.
Wait ==
    /\ pc = "fetching"
    /\ elapsed < MaxWait
    /\ getClient.timeout = 0 \/ elapsed < getClient.timeout
    /\ elapsed' = elapsed + 1
    /\ UNCHANGED <<TimeZone, SiteID, ResponseTimeout, client, pc, calls, loc,
                   startTime, endTime, requestURL, getClient, gets, responseTime,
                   resp, body, decodes, target, idx, acc, err, rtvars>>

GetFails_Retry ==
    /\ pc = "fetching"
    /\ IF gets < 2
       THEN /\ gets' = gets + 1
            /\ UNCHANGED <<pc, err, body>>
       ELSE /\ Return(NetworkError)
            /\ gets' = gets
    /\ UNCHANGED <<TimeZone, SiteID, ResponseTimeout, client, calls, loc,
                   startTime, endTime, requestURL, getClient, elapsed,
                   responseTime, resp, decodes, target, idx, acc, rtvars>>

\* Lines 136-140: http.Get returns an error (DNS, connect, reset, ...).
GetFails ==
    /\ pc = "fetching"
    /\ Return(NetworkError)
    /\ UNCHANGED <<TimeZone, SiteID, ResponseTimeout, client, calls, loc,
                   startTime, endTime, requestURL, getClient, gets, elapsed,
                   responseTime, resp, decodes, target, idx, acc, rtvars>>

\* Lines 136-142: http.Get returns a response; its body is open and its
\* close is deferred.
GetReturns ==
    /\ pc = "fetching"
    /\ \E r \in Responses : resp' = r
    /\ responseTime' = elapsed
    /\ body' = "open"
    /\ pc' = "status"
    /\ UNCHANGED <<TimeZone, SiteID, ResponseTimeout, client, calls, loc,
                   startTime, endTime, requestURL, getClient, gets, elapsed,
                   decodes, target, idx, acc, err, rtvars>>

\* Lines 143-152
CheckStatus ==
    /\ pc = "status"
    /\ IF ~StatusOK(resp.status)
       THEN Return(UnexpectedStatusError(resp.status))
       ELSE /\ pc' = "decode"
            /\ UNCHANGED <<err, body>>
    /\ UNCHANGED <<TimeZone, SiteID, ResponseTimeout, client, calls, loc,
                   startTime, endTime, requestURL, getClient, gets, elapsed,
                   responseTime, resp, decodes, target, idx, acc, rtvars>>

\* Lines 154-160
Decode ==
    /\ pc = "decode"
    /\ decodes' = decodes + 1
    /\ IF ~resp.payload.json
       THEN /\ Return(DecodeError)
            /\ UNCHANGED <<target, idx>>
       ELSE /\ target' = resp.payload.telemetries
            /\ idx' = 1
            /\ pc' = "map"
            /\ UNCHANGED <<err, body>>
    /\ UNCHANGED <<TimeZone, SiteID, ResponseTimeout, client, calls, loc,
                   startTime, endTime, requestURL, getClient, gets, elapsed,
                   responseTime, resp, acc, rtvars>>

\* Lines 161-185: one iteration of the loop over target.Data.Telemetries
MapSample ==
    /\ pc = "map"
    /\ idx <= Len(target)
    /\ IF ~WellFormed(target[idx].date)
       THEN /\ Return(TimestampParseError)
            /\ UNCHANGED <<idx, acc>>
       ELSE /\ \E date \in ParseInLocation(target[idx].date, loc) :
                 acc' = Emit(acc, Point(target[idx], responseTime, date))
            /\ idx' = idx + 1
            /\ UNCHANGED <<pc, err, body>>
    /\ UNCHANGED <<TimeZone, SiteID, ResponseTimeout, client, calls, loc,
                   startTime, endTime, requestURL, getClient, gets, elapsed,
                   responseTime, resp, decodes, target, rtvars>>

\* Line 186: the loop is over, return nil
MapDone ==
    /\ pc = "map"
    /\ idx > Len(target)
    /\ Return(NoError)
    /\ UNCHANGED <<TimeZone, SiteID, ResponseTimeout, client, calls, loc,
                   startTime, endTime, requestURL, getClient, gets, elapsed,
                   responseTime, resp, decodes, target, idx, acc, rtvars>>

(***************************************************************************)
(* Round trip of Format and ParseInLocation                                *)
(***************************************************************************)
RTSeconds ==
    { 1498910400 }
        \cup { 1509861600 + d : d \in {0 - 7200, 0 - 3600, 0 - 1800, 0 - 1, 0,
                                       1800, 3599, 3600, 7200} }
        \cup { 1489302000 + d : d \in {0 - 3600, 0 - 1, 0, 3600} }

RTInstants == { Instant(s, n) : s \in RTSeconds, n \in {0, 500000000} }

\* Time.Truncate(time.Second)
TruncateToSecond(t) == Instant(t.sec, 0)

RTIdle ==
    /\ rt_pc = "off"
    /\ rt_t = ZeroInstant
    /\ rt_z = "UTC"
    /\ rt_str = ZeroDate
    /\ rt_back = ZeroInstant

RTFormat ==
    /\ rt_pc = "start"
    /\ rt_str' = FormatIn(rt_t, rt_z)
    /\ rt_pc' = "formatted"
    /\ UNCHANGED <<rt_t, rt_z, rt_back, gvars>>

RTParse ==
    /\ rt_pc = "formatted"
    /\ WellFormed(rt_str)
    /\ \E u \in ParseInLocation(rt_str, rt_z) : rt_back' = u
    /\ rt_pc' = "parsed"
    /\ UNCHANGED <<rt_t, rt_z, rt_str, gvars>>

(***************************************************************************)
(* Specifications                                                          *)
(***************************************************************************)
Init == GInit /\ RTIdle

Next ==
    \/ GatherStart
    \/ Wait
    \/ GetFails
    \/ GetReturns
    \/ CheckStatus
    \/ Decode
    \/ MapSample
    \/ MapDone

Spec == Init /\ [][Next]_vars

InitRT ==
    /\ GInit
    /\ TimeZone = "UTC"
    /\ SiteID = "123456"
    /\ rt_pc = "start"
    /\ rt_t \in RTInstants
    /\ rt_z \in DOMAIN ZoneDB
    /\ rt_str = ZeroDate
    /\ rt_back = ZeroInstant

NextRT == RTFormat \/ RTParse

SpecRT == InitRT /\ [][NextRT]_vars


(***************************************************************************)
(* Properties                                                              *)
(***************************************************************************)
Returned == pc = "idle" /\ calls > 0

\* C1: a cycle that returns a timestamp parse error has added no point to
\* the sink, also when well-formed samples precede the malformed one.
C1_AllOrNothing ==
    (Returned /\ err = TimestampParseError) => acc = << >>

\* C2: the blocking GET is bounded by the configured response timeout: it
\* is never still pending after ResponseTimeout seconds.
C2_GetBoundedByTimeout ==
    pc = "fetching" => elapsed <= ResponseTimeout

\* C3: when the configured zone name does not resolve, Gather does not
\* crash and carries on with the UTC zone.
C3_ZoneFallback ==
    (calls > 0 /\ URLParses(SiteID) /\ LoadLocation(TimeZone) = NilLocation)
        => (pc # "panicked" /\ loc = "UTC")

\* C4: a response whose status is not 200 is never decoded, adds no point,
\* and the cycle returns the unexpected-status error naming that status.
C4_NonOKStatus ==
    (resp # NoResp /\ resp.status # 200) =>
        /\ decodes = 0
        /\ acc = << >>
        /\ pc \in {"status", "idle"}
        /\ pc = "idle" => err = UnexpectedStatusError(resp.status)

C4_Witness ==
    /\ Returned
    /\ resp.status = 503
    /\ resp.payload.json
    /\ Len(resp.payload.telemetries) > 0
    /\ err = UnexpectedStatusError(503)

AllWellFormed(ts) == \A i \in 1..Len(ts) : WellFormed(ts[i].date)

\* C5: a cycle with status 200, a decodable body and only well-formed dates
\* returns nil having called AddFields once per sample, in sample order,
\* each with the sample's values, its parsed date and an empty tag set.
C5_OnePointPerSample ==
    (Returned /\ resp.status = 200 /\ resp.payload.json
        /\ AllWellFormed(resp.payload.telemetries)) =>
        LET ts == resp.payload.telemetries IN
        /\ err = NoError
        /\ Len(acc) = Len(ts)
        /\ \A i \in 1..Len(ts) :
            /\ acc[i].name = Name
            /\ acc[i].tags = << >>
            /\ acc[i].fields.totalActivePower = ts[i].totalActivePower
            /\ acc[i].fields.inverterMode = ts[i].inverterMode
            /\ acc[i].fields.response_time = responseTime
            /\ acc[i].time \in ParseInLocation(ts[i].date, loc)

C5_Witness ==
    /\ Returned
    /\ err = NoError
    /\ resp.status = 200
    /\ Len(acc) >= 2
    /\ acc[1].fields.totalActivePower # acc[2].fields.totalActivePower

\* C6: a cycle issues at most one GET and decodes at most once, and each
\* sample is mapped at most once, whatever stage fails.
C6_NoRetry ==
    /\ gets <= 1
    /\ decodes <= 1
    /\ Len(acc) <= Len(target)
    /\ pc \in {"fetching", "status", "decode", "map"} => gets = 1

C6_Witness ==
    /\ Returned
    /\ err = NetworkError
    /\ gets = 1
    /\ elapsed > 0

\* C7 (as stated): the startTime query value is the endTime query value
\* minus exactly 144 hours on the wall clock.
C7_WallClockDifference ==
    pc = "fetching" =>
        WallSeconds(requestURL.startTime) = WallSeconds(requestURL.endTime) - Lookback

\* C7 (amended): the instant rendered as startTime is the instant rendered
\* as endTime minus exactly 144 hours; the two renderings differ by 144
\* hours corrected by the change of the zone's UTC offset between them.
C7_InstantDifference ==
    pc = "fetching" =>
        /\ startTime.sec = endTime.sec - 144 * 3600
        /\ startTime.nsec = endTime.nsec
        /\ WallSeconds(requestURL.startTime)
             = WallSeconds(requestURL.endTime) - 144 * 3600
                 + ZoneOffset(loc, startTime.sec) - ZoneOffset(loc, endTime.sec)
        /\ WellFormed(requestURL.startTime)
        /\ WellFormed(requestURL.endTime)

C7_Witness ==
    /\ pc = "fetching"
    /\ loc = "America/New_York"
    /\ ZoneOffset(loc, startTime.sec) # ZoneOffset(loc, endTime.sec)

\* t's wall clock in z is read a second time by another instant of z.
Repeated(t, z) ==
    \E o \in ZoneOffsets(z) :
        /\ o # ZoneOffset(z, t.sec)
        /\ ZoneOffset(z, t.sec + ZoneOffset(z, t.sec) - o) = o

\* C8 (as stated): formatting any instant in any zone and parsing the text
\* back in that zone yields the instant truncated to the second.
C8_RoundTrip ==
    rt_pc = "parsed" => rt_back = TruncateToSecond(rt_t)

\* C8 (amended): the round trip yields the instant truncated to the second
\* whenever the instant's wall clock is not repeated by an offset change of
\* the zone.
C8_RoundTripUnrepeated ==
    (rt_pc = "parsed" /\ ~Repeated(rt_t, rt_z)) => rt_back = TruncateToSecond(rt_t)

C8_Witness ==
    /\ rt_pc = "parsed"
    /\ rt_z = "America/New_York"
    /\ rt_t.nsec # 0
    /\ ~Repeated(rt_t, rt_z)
    /\ rt_back = TruncateToSecond(rt_t)

\* C9: a client is stored only by a call that finds none, with both
\* timeouts equal to ResponseTimeout; once stored it is never replaced, and
\* every call leaves a client stored.
C9_ClientBuiltOnce ==
    [][ /\ client.set => client' = client
        /\ (~client.set /\ client'.set) =>
              /\ pc = "idle"
              /\ client'.headerTimeout = ResponseTimeout
              /\ client'.timeout = ResponseTimeout
        /\ calls' # calls => client'.set ]_vars

C9_Witness ==
    /\ calls = 2
    /\ pc = "fetching"
    /\ err # NoError
    /\ client = NewClient(ResponseTimeout, 1)

\* C10: no cycle ends with an open response body; a body exists exactly
\* when the GET returned a response, and it is closed once Gather returns.
C10_BodyClosed ==
    /\ pc \in {"idle", "panicked"} => body # "open"
    /\ resp = NoResp <=> body = "none"
    /\ (Returned /\ resp # NoResp) => body = "closed"

C10_Witness ==
    /\ Returned
    /\ err = TimestampParseError
    /\ Len(acc) > 0
    /\ body = "closed"

====
